---- MODULE Spec2Model ----
(***************************************************************************)
(* Model of the animation and update loop of ChristmasVillage              *)
(* (src/main.js): the frame scheduler animate(), the snow particles        *)
(* (createSnow, animateSnow, updateSnow), the snow drifts                  *)
(* (createInitialSnowDrifts, addToSnowCover) and the path followers        *)
(* (createElves, createSanta, generateRandomPath, animateCharacters), the   *)
(* camera, the LOD objects and the render call, the ground mist            *)
(* (createGroundMist, updateParticleSystems), init() and the AssetManager. *)
(*                                                                         *)
(* JavaScript numbers are modelled in fixed point:                         *)
(*   - times are integer milliseconds (performance.now, THREE.Clock);      *)
(*   - snow positions and velocities, and the x/z of a drift, are in       *)
(*     tenths of a world unit (80 is 800, a velocity of -0.3 is -3);       *)
(*   - a drift's scale, height, maxHeight, growthRate and position.y are   *)
(*     in units of 1/40000 (a scale of 1 is ScaleOne = 40000, a            *)
(*     growthRate of 0.0001 is 4);                                         *)
(*   - path waypoints are in thousandths of a world unit, a follower's     *)
(*     position and moveSpeed in units of 1/100000;                        *)
(*   - the camera and the LOD objects are at whole world units;            *)
(*   - mist positions and velocities are in thousandths of a world unit.   *)
(* Every Math.random() result is an input drawn from a small set.          *)
(***************************************************************************)
EXTENDS Integers, Sequences, FiniteSets, TLC

VARIABLES
    now,               \* performance.now(), ms
    clock,             \* this.clock: [running, oldTime, elapsedTime]
    lastFrameTime,     \* this.lastFrameTime (0 models undefined: both are falsy)
    animationFrameId,  \* this.animationFrameId (0 models undefined)
    rafPending,        \* ids of the animation-frame requests not yet run or cancelled
    started,           \* the timer callback of init() has called animate()
    microtasks,        \* queued Promise.resolve().then(...) callbacks: the deltaTime
                       \* and the number of the animate() call that queued each
    frame,             \* number of animate() invocations so far
    snow,              \* this.snow: particle i is [x, y, z, vx, vy, vz]
    drifts,            \* this.snowAccumulationGroup.children
    impacted,          \* the (x, z) handed to addToSnowCover by the last handler
    impactCount,       \* number of addToSnowCover calls so far
    elves,             \* this.elves: elf i is [x, z, pathIndex, moveSpeed, path]
    santa,             \* this.santa, a follower like an elf
    advances,          \* number of pathIndex advances of each follower so far
    camera,            \* this.camera: [position, matrixWorld, matrixWorldNeedsUpdate]
    controls,          \* this.controls: where update() will put the camera
    lods,              \* the THREE.LOD objects of the scene: [position, thresholds, visible]
    renderCount,       \* number of renderer.render calls so far
    lastRenderFrame,   \* the number of the animate() call that rendered last
    lastFrameSkip,     \* frameSkip of the last executed animate() call
    tickCalls,         \* the calls the last animate() made inside the throttled block
    groundMist,        \* this.groundMist: particle i is [x, z, vx, vz]; <<>> is undefined
    initPc,            \* where init() is: the index of the next stage, or its outcome
    stagesRun,         \* the stage functions init() has called and that returned
    groundTexture,     \* the texture load started by createGround()
    loadingHidden,     \* hideLoadingScreen() has been called
    alerts,            \* number of alert() calls so far
    cache,             \* AssetManager.cache: the urls that have an entry
    loading,           \* for every url and loader, the number of requests in flight
    loadsStarted       \* for every url, the loader.load calls made so far

vars == <<now, clock, lastFrameTime, animationFrameId, rafPending, started,
          microtasks, frame, snow, drifts, impacted, impactCount,
          elves, santa, advances, camera, controls, lods, renderCount,
          lastRenderFrame, lastFrameSkip, tickCalls, groundMist, initPc, stagesRun,
          groundTexture, loadingHidden, alerts, cache, loading, loadsStarted>>

\* the state of the frame scheduler
schedulerVars == <<now, clock, lastFrameTime, animationFrameId, rafPending, started,
                   microtasks, tickCalls>>

\* the state of the snow and of the drifts
snowVars == <<snow, drifts, impacted, impactCount>>

\* the state of the path followers
followerVars == <<elves, santa, advances>>

\* the camera, its controls, the LOD objects and the renderer
renderVars == <<camera, controls, lods, renderCount, lastRenderFrame>>

\* the state of init()
initVars == <<initPc, stagesRun, groundTexture, loadingHidden, alerts>>

\* the state of the AssetManager
assetVars == <<cache, loading, loadsStarted>>

\* the state of the animation loop and of the scene
loopVars == <<schedulerVars, frame, snowVars, followerVars, renderVars, lastFrameSkip,
              groundMist>>

----------------------------------------------------------------------------
(* Bounds of the model *)

\* particles of the snow system (the code allocates 3000)
NumSnow == 1

\* drifts made by createInitialSnowDrifts (the code makes 100)
NumInitialDrifts == 2

\* houses of createDetailedHouses that are modelled (the code makes 12)
NumHouses == 2

\* trees of createDetailedTrees (the code makes 50)
NumTrees == 1

\* urls handed to the AssetManager
NumUrls == 2

\* loader.load calls per url
MaxLoads == 2

\* particles of the ground mist (the code allocates 100)
NumMist == 1

\* addToSnowCover calls in the specification of the snow cover
MaxImpacts == 3

\* calls of updateParticleSystems in the specification of the mist
MaxMistTicks == 40

\* elves made by createElves (the code makes 8)
NumElves == 1

\* animate() invocations explored
MaxFrames == 6

\* ticks of animateCharacters explored when the followers run alone
MaxPathTicks == 2500

----------------------------------------------------------------------------
(* Program constants, in the units above *)

\* setTimeout(..., 500) before the first animate()
StartDelay == 500

\* targetFPS
TargetFPS == 60

\* positions[i + 1] = 80 in animateSnow, Math.random() * 80 in createSnow
SnowTop == 800

\* positions[i + 1] = 50 in updateSnow
SnowRespawnY == 500

\* the wrap bound 60 of animateSnow
SnowWrap == 600

\* radius = 2 in addToSnowCover, as a squared distance in tenths
CoverRadiusSq == (2 * 10) * (2 * 10)

\* the default scale (1, 1, 1) of a new THREE.Mesh
ScaleOne == 40000

\* the simulated time of the snow scenario, 10 s in ms
TenSeconds == 10 * 1000

\* time between two animate() invocations: a throttled frame, a regular frame,
\* a long pause of the page
FrameIntervals == {10, 20, 2500}

\* numPoints of generateRandomPath
NumPoints == 10

\* the arrival distance 0.1 of animateCharacters, in units of 1/100000
ArrivalDistance == 10000

\* units of a follower's position (1/100000) in one unit of a waypoint (1/1000)
PosPerMilli == 100000 \div 1000

\* santa.userData.moveSpeed = 0.03
SantaSpeed == 3000

----------------------------------------------------------------------------
(* Math.random() draws *)

\* createSnow and the reset of animateSnow: x, z = (random - 0.5) * 120 in
\* [-60, 60), vx, vz = (random - 0.5) * 0.2 in [-0.1, 0.1),
\* vy = -random * 0.3 - 0.2 in (-0.5, -0.2]
SnowDraws ==
    { [x |-> 7,    z |-> 7,   vx |-> 0,  vy |-> -2, vz |-> 0],
      [x |-> -600, z |-> 599, vx |-> -1, vy |-> -4, vz |-> -1] }

\* createSnow: the same draws with y = random * 80 in [0, 80)
SnowStartDraws ==
    { [x |-> 7,    y |-> 6,   z |-> 7,   vx |-> 0,  vy |-> -2, vz |-> 0],
      [x |-> -600, y |-> 8,   z |-> 599, vx |-> -1, vy |-> -4, vz |-> -1],
      [x |-> 300,  y |-> 0,   z |-> -12, vx |-> 0,  vy |-> -3, vz |-> -1],
      [x |-> -45,  y |-> 799, z |-> 120, vx |-> -1, vy |-> -2, vz |-> 0] }

\* the reset of updateSnow: x, z = (random - 0.5) * 100 in [-50, 50),
\* vx, vz = (random - 0.5) * 0.1 in [-0.05, 0.05), vy = -random * 0.5 - 0.1 in (-0.6, -0.1]
RespawnDraws ==
    { [x |-> -500, z |-> 250, vx |-> 0, vy |-> -1, vz |-> 0],
      [x |-> 12,   z |-> 0,   vx |-> 0, vy |-> -5, vz |-> 0] }

\* createInitialSnowDrifts: x, z = (random - 0.5) * 80 in [-40, 40),
\* height = random * 0.3 + 0.1 in [0.1, 0.4), growthRate = 0.0001 + random * 0.0001
InitialDriftDraws ==
    { [x |-> 0,  z |-> 0, height |-> 4000,  growthRate |-> 4],
      [x |-> 10, z |-> 0, height |-> 15998, growthRate |-> 6] }

\* the spawn of addToSnowCover: height = 0.2 + random * 0.2 in [0.2, 0.4),
\* growthRate = 0.0001 + random * 0.0001
SpawnDraws ==
    { [height |-> 8000, growthRate |-> 4],
      [height |-> 15998, growthRate |-> 6] }

\* generateRandomPath: for each of the 10 points the two factors
\* radius * (0.8 + random * 0.4) in [16, 24), in thousandths
PathDrawRegular ==
    [rx |-> [i \in 1..NumPoints |-> 16000], rz |-> [i \in 1..NumPoints |-> 16000]]

PathDrawIrregular ==
    [rx |-> [i \in 1..NumPoints |-> IF i % 2 = 0 THEN 23999 ELSE 17500],
     rz |-> [i \in 1..NumPoints |-> IF i % 3 = 0 THEN 16000 ELSE 21250]]

\* createElves: radius = 15 + random * 10 in [15, 25) in thousandths,
\* moveSpeed = 0.02 + random * 0.02 in [0.02, 0.04), and the draws of the path
ElfDraws ==
    { [radius |-> 16000, moveSpeed |-> 3998, path |-> PathDrawRegular] }

\* createSanta: the draws of the path
SantaDraws == { PathDrawIrregular }

----------------------------------------------------------------------------
(* THREE.Clock *)

\* getDelta() that measures from the start of the clock and leaves oldTime
ClockGetDeltaSinceStart(c, t) ==
    IF ~c.running
    THEN [clock |-> [running |-> TRUE, oldTime |-> t, elapsedTime |-> 0], value |-> 0]
    ELSE [clock |-> [running |-> TRUE, oldTime |-> c.oldTime,
                     elapsedTime |-> t - c.oldTime],
          value |-> t - c.oldTime]

\* Clock.getDelta() at time t: the clock afterwards and the value returned
ClockGetDelta(c, t) ==
    IF ~c.running
    THEN [clock |-> [running |-> TRUE, oldTime |-> t, elapsedTime |-> 0], value |-> 0]
    ELSE [clock |-> [running |-> TRUE, oldTime |-> t,
                     elapsedTime |-> c.elapsedTime + (t - c.oldTime)],
          value |-> t - c.oldTime]

\* Clock.getElapsedTime() at time t: calls getDelta() and returns elapsedTime
ClockGetElapsedTime(c, t) ==
    LET d == ClockGetDelta(c, t)
    IN  [clock |-> d.clock, value |-> d.clock.elapsedTime]

----------------------------------------------------------------------------
(* Snow particles *)

\* Math.sin(time * 0.5) * 0.1 in tenths, rounded: |sin| >= 1/2 on
\* [pi/6, 5pi/6] + k pi, the period of time * 0.5 is 4000 pi ms
WindX(t) ==
    LET m == t % 12566
    IN  IF m >= 1047 /\ m <= 5236 THEN 1
        ELSE IF m >= 7330 /\ m <= 11519 THEN -1
        ELSE 0

\* Math.cos(time * 0.3) * 0.1 in tenths, rounded: the period of time * 0.3 is
\* 20944 ms, cos >= 1/2 on [-pi/3, pi/3], cos <= -1/2 on [2pi/3, 4pi/3]
WindZ(t) ==
    LET m == t % 20944
    IN  IF m <= 3491 \/ m >= 17453 THEN 1
        ELSE IF m >= 6981 /\ m <= 13963 THEN -1
        ELSE 0

\* the two wrap tests of animateSnow on one coordinate, in their order
WrapCoordinate(v) ==
    LET a == IF v > SnowWrap THEN -SnowWrap ELSE v
    IN  IF a < -SnowWrap THEN SnowWrap ELSE a

\* the ground test taken against the wrap bound instead of the ground
FellBelowWrapBound(y) == y < -SnowWrap

\* whether animateSnow resets a particle: positions[i + 1] < 0 after integration
FellBelowGround(y) == y < 0

\* the body of animateSnow's loop for one particle; d is the draw its reset uses
AnimateSnowParticle(p, t, d) ==
    LET x1 == p.x + p.vx + WindX(t)
        y1 == p.y + p.vy
        z1 == p.z + p.vz + WindZ(t)
        q  == IF FellBelowGround(y1)
              THEN [x |-> d.x, y |-> SnowTop, z |-> d.z,
                    vx |-> d.vx, vy |-> d.vy, vz |-> d.vz]
              ELSE [p EXCEPT !.x = x1, !.y = y1, !.z = z1]
    IN  [q EXCEPT !.x = WrapCoordinate(q.x), !.z = WrapCoordinate(q.z)]

\* the particles animateSnow resets
Fallen(s) == {i \in DOMAIN s : FellBelowGround(s[i].y + s[i].vy)}

\* animateSnow() at elapsed time t; draws[i] is the draw of particle i's reset
AnimateSnow(s, t, draws) ==
    [i \in DOMAIN s |->
        AnimateSnowParticle(s[i], t, IF i \in DOMAIN draws THEN draws[i] ELSE s[i])]

----------------------------------------------------------------------------
(* Snow drifts *)

\* a drift whose scale.y starts at its height, below its maxHeight
NewDriftLow(x, z, height, growthRate) ==
    [x |-> x, z |-> z, py |-> height \div 2,
     sx |-> ScaleOne, sy |-> height, sz |-> ScaleOne,
     height |-> height, maxHeight |-> height * 2, growthRate |-> growthRate]

\* a drift made with the given height at (x, z): scale (1, 1, 1),
\* position.y = height / 2, maxHeight = height * 2
NewDrift(x, z, height, growthRate) ==
    [x |-> x, z |-> z, py |-> height \div 2,
     sx |-> ScaleOne, sy |-> ScaleOne, sz |-> ScaleOne,
     height |-> height, maxHeight |-> height * 2, growthRate |-> growthRate]

\* the growth step with a drift above its maxHeight cut back to it
GrowDriftClamped(d) ==
    IF d.sy < d.maxHeight
    THEN [d EXCEPT !.sy = d.sy + d.growthRate,
                   !.sx = d.sx + d.growthRate \div 2,
                   !.sz = d.sz + d.growthRate \div 2,
                   !.py = (d.height * (d.sy + d.growthRate)) \div (2 * ScaleOne)]
    ELSE [d EXCEPT !.sy = d.maxHeight]

\* the growth step with the same growth on every axis
GrowDriftUniform(d) ==
    IF d.sy < d.maxHeight
    THEN [d EXCEPT !.sy = d.sy + d.growthRate,
                   !.sx = d.sx + d.growthRate,
                   !.sz = d.sz + d.growthRate,
                   !.py = (d.height * (d.sy + d.growthRate)) \div (2 * ScaleOne)]
    ELSE d

\* the growth step shared by addToSnowCover and updateSnow
GrowDrift(d) ==
    IF d.sy < d.maxHeight
    THEN [d EXCEPT !.sy = d.sy + d.growthRate,
                   !.sx = d.sx + d.growthRate \div 2,
                   !.sz = d.sz + d.growthRate \div 2,
                   !.py = (d.height * (d.sy + d.growthRate)) \div (2 * ScaleOne)]
    ELSE d

\* squared XZ distance of drift d from (x, z), in tenths squared
DriftDistSq(d, x, z) == (d.x - x) * (d.x - x) + (d.z - z) * (d.z - z)

\* the forEach of addToSnowCover: the index of nearestDrift, 0 when none is
\* within the radius; among equally near drifts the first one is kept
RECURSIVE NearestFrom(_, _, _, _, _)
NearestFrom(ds, x, z, i, best) ==
    IF i > Len(ds) THEN best
    ELSE LET dist == DriftDistSq(ds[i], x, z)
             better == dist < CoverRadiusSq
                       /\ (best = 0 \/ dist < DriftDistSq(ds[best], x, z))
         IN  NearestFrom(ds, x, z, i + 1, IF better THEN i ELSE best)

NearestDrift(ds, x, z) == NearestFrom(ds, x, z, 1, 0)

\* addToSnowCover with a spawn that takes the place of the oldest drift
AddToSnowCoverRecycling(ds, x, z, coin, d) ==
    LET n == NearestDrift(ds, x, z)
    IN  IF n # 0 THEN [ds EXCEPT ![n] = GrowDrift(ds[n])]
        ELSE IF coin THEN Append(Tail(ds), NewDrift(x, z, d.height, d.growthRate))
        ELSE ds

\* addToSnowCover with the spawn tried after the growth too (if, not else if)
AddToSnowCoverSpawningAnyway(ds, x, z, coin, d) ==
    LET n == NearestDrift(ds, x, z)
        grown == IF n # 0 THEN [ds EXCEPT ![n] = GrowDrift(ds[n])] ELSE ds
    IN  IF coin THEN Append(grown, NewDrift(x, z, d.height, d.growthRate)) ELSE grown

\* addToSnowCover(x, z): coin is Math.random() < 0.05, d the draw of a spawn
AddToSnowCover(ds, x, z, coin, d) ==
    LET n == NearestDrift(ds, x, z)
    IN  IF n # 0 THEN [ds EXCEPT ![n] = GrowDrift(ds[n])]
        ELSE IF coin THEN Append(ds, NewDrift(x, z, d.height, d.growthRate))
        ELSE ds

\* the first loop of updateSnow: grow is the set of drifts with Math.random() < 0.01
SettleDrifts(ds, grow) ==
    [i \in DOMAIN ds |-> IF i \in grow THEN GrowDrift(ds[i]) ELSE ds[i]]

\* the landing test with a margin of one unit above the ground
OnGroundWithMargin(y) == y <= 10

\* whether updateSnow takes a particle as landed
OnGround(y) == y <= 0

\* the particles updateSnow takes as landed
Landed(s) == {i \in DOMAIN s : OnGround(s[i].y)}

\* the second loop of updateSnow from particle i on; st = [snow, drifts, hits]
RECURSIVE UpdateSnowFrom(_, _, _, _, _)
UpdateSnowFrom(st, i, coins, spawns, respawns) ==
    IF i > Len(st.snow) THEN st
    ELSE LET p == st.snow[i]
             r == respawns[i]
         IN  IF OnGround(p.y)
             THEN UpdateSnowFrom(
                    [snow |-> [st.snow EXCEPT ![i] =
                                  [x |-> r.x, y |-> SnowRespawnY, z |-> r.z,
                                   vx |-> r.vx, vy |-> r.vy, vz |-> r.vz]],
                     drifts |-> AddToSnowCover(st.drifts, p.x, p.z, coins[i], spawns[i]),
                     hits |-> Append(st.hits, <<p.x, p.z>>)],
                    i + 1, coins, spawns, respawns)
             ELSE UpdateSnowFrom(st, i + 1, coins, spawns, respawns)

\* updateSnow(): the drifts settle, then every landed particle is added to the
\* snow cover and respawned
UpdateSnow(s, ds, grow, coins, spawns, respawns) ==
    UpdateSnowFrom([snow |-> s, drifts |-> SettleDrifts(ds, grow), hits |-> <<>>],
                   1, coins, spawns, respawns)

----------------------------------------------------------------------------
(* Path followers *)

\* 1000 * cos and 1000 * sin of (i - 1) / 10 * 2 pi, the angles of generateRandomPath
Cos10 == <<1000, 809, 309, -309, -809, -1000, -809, -309, 309, 809>>

Sin10 == <<0, 588, 951, 951, 588, 0, -588, -951, -951, -588>>

\* 1000 * cos and 1000 * sin of (i - 1) / 8 * 2 pi, the start angles of createElves
Cos8 == <<1000, 707, 0, -707, -1000, -707, 0, 707>>

Sin8 == <<0, 707, 1000, 707, 0, -707, -1000, -707>>

\* a / b rounded to the nearest integer, b > 0
Round(a, b) == (2 * a + b) \div (2 * b)

\* the integer square root of n >= 0, by Newton's iteration from x
RECURSIVE SqrtFrom(_, _)
SqrtFrom(n, x) ==
    LET y == (x + n \div x) \div 2
    IN  IF y >= x THEN x ELSE SqrtFrom(n, y)

ISqrt(n) == IF n = 0 THEN 0 ELSE SqrtFrom(n, n)

\* generateRandomPath() without the closing point
GenerateRandomPathOpen(d) ==
    [i \in 1..NumPoints |->
        [x |-> Round(Cos10[i] * d.rx[i], 1000),
         z |-> Round(Sin10[i] * d.rz[i], 1000)]]

\* generateRandomPath(): the 10 points and a copy of the first one
GenerateRandomPath(d) ==
    LET pts == [i \in 1..NumPoints |->
                  [x |-> Round(Cos10[i] * d.rx[i], 1000),
                   z |-> Round(Sin10[i] * d.rz[i], 1000)]]
    IN  Append(pts, pts[1])

\* the elf made by the loop of createElves at index i (from 0)
CreateElf(i, d) ==
    [x |-> Round(Cos8[i + 1] * d.radius, 1000) * PosPerMilli,
     z |-> Round(Sin8[i + 1] * d.radius, 1000) * PosPerMilli,
     pathIndex |-> 0, moveSpeed |-> d.moveSpeed, path |-> GenerateRandomPath(d.path)]

\* createSanta(): the group is at the origin
CreateSanta(d) ==
    [x |-> 0, z |-> 0, pathIndex |-> 0, moveSpeed |-> SantaSpeed,
     path |-> GenerateRandomPath(d)]

\* nextPoint = path[(pathIndex + 1) % path.length]
NextPoint(f) == f.path[((f.pathIndex + 1) % Len(f.path)) + 1]

\* direction.normalize().multiplyScalar(moveSpeed) for direction (dx, dz):
\* normalize() leaves the zero vector as it is
StepVector(dx, dz, moveSpeed) ==
    LET len == ISqrt(dx * dx + dz * dz)
    IN  IF len = 0 THEN [x |-> 0, z |-> 0]
        ELSE [x |-> Round(dx * moveSpeed, len), z |-> Round(dz * moveSpeed, len)]

\* the arrival test taken on each axis alone
ArrivedOnEachAxis(x, z, point) ==
    LET ex == x - point.x * PosPerMilli
        ez == z - point.z * PosPerMilli
    IN  /\ ex < ArrivalDistance /\ -ex < ArrivalDistance
        /\ ez < ArrivalDistance /\ -ez < ArrivalDistance

\* position.distanceTo(point) < 0.1 for a position (x, z)
Arrived(x, z, point) ==
    LET ex == x - point.x * PosPerMilli
        ez == z - point.z * PosPerMilli
    IN  /\ ex < ArrivalDistance /\ -ex < ArrivalDistance
        /\ ez < ArrivalDistance /\ -ez < ArrivalDistance
        /\ ex * ex + ez * ez < ArrivalDistance * ArrivalDistance

\* the advance without the wrap
AdvanceIndexUnwrapped(pathIndex, length) == pathIndex + 1

\* userData.pathIndex = (pathIndex + 1) % path.length
AdvanceIndex(pathIndex, length) == (pathIndex + 1) % length

\* the body of animateCharacters for one follower
AnimateFollower(f) ==
    LET cur  == f.path[f.pathIndex + 1]
        nxt  == NextPoint(f)
        step == StepVector(nxt.x - cur.x, nxt.z - cur.z, f.moveSpeed)
        x1   == f.x + step.x
        z1   == f.z + step.z
    IN  [f EXCEPT !.x = x1, !.z = z1,
                  !.pathIndex = IF Arrived(x1, z1, nxt)
                                THEN AdvanceIndex(f.pathIndex, Len(f.path))
                                ELSE f.pathIndex]

\* animateCharacters(): every elf, then Santa
AnimateCharacters ==
    /\ elves' = [i \in DOMAIN elves |-> AnimateFollower(elves[i])]
    /\ santa' = AnimateFollower(santa)
    /\ advances' =
          [elves |-> [i \in DOMAIN elves |->
                        IF elves'[i].pathIndex # elves[i].pathIndex
                        THEN advances.elves[i] + 1 ELSE advances.elves[i]],
           santa |-> IF santa'.pathIndex # santa.pathIndex
                     THEN advances.santa + 1 ELSE advances.santa]

----------------------------------------------------------------------------
(* Camera, controls, LOD objects and renderer (three 0.158.0); positions in  *)
(* whole world units, distances compared by their squares                    *)

\* createDetailedHouses: housePositions
HousePositions ==
    << [x |-> -15, z |-> -15], [x |-> -8, z |-> -8], [x |-> 0, z |-> -12],
       [x |-> 8, z |-> -8], [x |-> 15, z |-> -15], [x |-> -12, z |-> 0],
       [x |-> 12, z |-> 0], [x |-> -15, z |-> 15], [x |-> -8, z |-> 8],
       [x |-> 0, z |-> 12], [x |-> 8, z |-> 8], [x |-> 15, z |-> 15] >>

\* createDetailedTrees: the positions drawn, each in [-45, 45) and at least 5
\* from the houses and from the earlier trees
TreePositionDraws ==
    << [x |-> 30, z |-> -20], [x |-> -40, z |-> 10], [x |-> 5, z |-> 40] >>

\* houseLOD.addLevel(..., 0), (..., 50), (..., 100): "Increased from 20 to 50",
\* "Increased from 50 to 100"
HouseThresholdsBeforeIncrease == <<0, 20, 50>>

HouseThresholds == <<0, 50, 100>>

\* treeLOD.addLevel(..., 0), (..., 60), (..., 120)
TreeThresholds == <<0, 60, 120>>

\* the THREE.LOD objects in the order of scene.traverse: houses, then trees
LODObjects ==
    [i \in 1..(NumHouses + NumTrees) |->
        IF i <= NumHouses
        THEN [x |-> HousePositions[i].x, z |-> HousePositions[i].z,
              thresholds |-> HouseThresholds]
        ELSE [x |-> TreePositionDraws[i - NumHouses].x,
              z |-> TreePositionDraws[i - NumHouses].z,
              thresholds |-> TreeThresholds]]

\* addLevel adds every level as a visible child
AllLevelsVisible(thresholds) == DOMAIN thresholds

\* setupCamera(): camera.position.set(20, 20, 20)
CameraStart == [x |-> 20, y |-> 20, z |-> 20]

\* positions the OrbitControls can be asked to put the camera at (rotate,
\* dolly and pan by pointer input); from HousePositions[1] they are at the
\* distances sqrt(2850), 50, 75, 99, 100, 149 and 150
CameraDraws ==
    { CameraStart,
      [x |-> 15,  y |-> 40,  z |-> -15],
      [x |-> 30,  y |-> 60,  z |-> -15],
      [x |-> -4,  y |-> 44,  z |-> 73],
      [x |-> 45,  y |-> 80,  z |-> -15],
      [x |-> 36,  y |-> 140, z |-> -15],
      [x |-> 75,  y |-> 120, z |-> -15] }

\* the square of the distance from position p to the LOD object o (at y = 0)
DistanceSq(p, o) ==
    (p.x - o.x) * (p.x - o.x) + p.y * p.y + (p.z - o.z) * (p.z - o.z)

\* LOD.update: distance > levels[i].distance (a level reached only beyond it)
BeyondLevelDistance(distSq, threshold) == distSq > threshold * threshold

\* LOD.update: distance >= levels[i].distance
AtLevelDistance(distSq, threshold) == distSq >= threshold * threshold

\* LOD.update: the loop over the levels from the second one, up to the first
\* the camera is nearer than
RECURSIVE LODLevelFrom(_, _, _)
LODLevelFrom(distSq, thresholds, i) ==
    IF i <= Len(thresholds) /\ AtLevelDistance(distSq, thresholds[i])
    THEN LODLevelFrom(distSq, thresholds, i + 1)
    ELSE i - 1

\* LOD.update(camera): the levels left visible for a camera whose matrixWorld
\* is at p
LODUpdate(ls, p) ==
    [i \in DOMAIN ls |->
        { LODLevelFrom(DistanceSq(p, LODObjects[i]), LODObjects[i].thresholds, 2) }]

\* the LOD batch run on every executed tick
LODBatchAlways(cam) == TRUE

\* if (this.camera.matrixWorldNeedsUpdate)
LODBatchDue(cam) == cam.matrixWorldNeedsUpdate

\* animate(): "Update LOD based on camera position - only if camera moved"
BatchLODUpdate(cam, ls) ==
    IF LODBatchDue(cam)
    THEN [camera |-> [cam EXCEPT !.matrixWorld = cam.position,
                                 !.matrixWorldNeedsUpdate = FALSE],
          lods |-> LODUpdate(ls, cam.matrixWorld)]
    ELSE [camera |-> cam, lods |-> ls]

\* this.controls.update(): the camera is put where the controls want it and
\* camera.lookAt(target) recomputes its matrices (Object3D.updateWorldMatrix
\* calls updateMatrix, which sets matrixWorldNeedsUpdate)
ControlsUpdate(cam, goal) ==
    [position |-> goal, matrixWorld |-> goal, matrixWorldNeedsUpdate |-> TRUE]

\* this.renderer.render(scene, camera): WebGLRenderer updates the world matrix
\* of the parentless camera and, while it projects the scene, calls
\* update(camera) on every LOD (LOD.autoUpdate is true, main.js never
\* changes it)
RenderCamera(cam) ==
    [cam EXCEPT !.matrixWorld = cam.position, !.matrixWorldNeedsUpdate = FALSE]

RenderLODs(cam, ls) == LODUpdate(ls, RenderCamera(cam).matrixWorld)

\* pointer input on the canvas: the OrbitControls take a new goal and their
\* handler ends with its own update(), which moves the camera at once
PointerInput ==
    /\ started
    /\ frame < MaxFrames
    /\ \E p \in CameraDraws \ {controls} :
          /\ controls' = p
          /\ camera' = ControlsUpdate(camera, p)
    /\ UNCHANGED <<schedulerVars, frame, snowVars, followerVars, lods,
                   renderCount, lastRenderFrame, lastFrameSkip, groundMist>>
    /\ UNCHANGED <<initVars, assetVars>>

----------------------------------------------------------------------------
(* Ground mist: x, z and their velocities in thousandths of a world unit, the *)
(* grid that stands for the Float32Array the positions are stored in          *)

\* updateParticleSystems: if (radius > 40), in thousandths
MistRadius == 40000

\* createGroundMist(): a particle at cos(angle) * radius, sin(angle) * radius
\* with radius < 40 and velocities (Math.random() - 0.5) * 0.01
MistDraws ==
    { [x |-> 24000,  z |-> 31995,  vx |-> 3,  vz |-> 4],
      [x |-> 28282,  z |-> 28282,  vx |-> 4,  vz |-> 4],
      [x |-> -11200, z |-> 38390,  vx |-> -2, vz |-> 3],
      [x |-> 100,    z |-> -200,   vx |-> -5, vz |-> 2] }

\* a quotient stored in a position: a / b rounded to the grid
RoundQuotient(a, b) == (a + b \div 2) \div b

\* if (radius > 45): a wider boundary
OutsideWiderRadius(radiusSq) ==
    radiusSq > (MistRadius + MistRadius \div 8) * (MistRadius + MistRadius \div 8)

\* if (radius > 40), with radius = Math.sqrt(x * x + z * z)
OutsideMistRadius(radiusSq) == radiusSq > MistRadius * MistRadius

\* the integration of one mist particle: positions[i] += velocities[i]
IntegrateMist(p) == [p EXCEPT !.x = p.x + p.vx, !.z = p.z + p.vz]

\* the body of the loop of updateParticleSystems over the ground mist:
\* Math.cos(angle) * 40 is x / radius * 40, Math.sin(angle) * 40 is z / radius * 40
UpdateMistParticle(p) ==
    LET q == IntegrateMist(p)
        radiusSq == q.x * q.x + q.z * q.z
    IN  IF OutsideMistRadius(radiusSq)
        THEN [q EXCEPT !.x = RoundQuotient(q.x * MistRadius, ISqrt(radiusSq)),
                       !.z = RoundQuotient(q.z * MistRadius, ISqrt(radiusSq))]
        ELSE q

\* updateParticleSystems: "Update Ground Mist", skipped while this.groundMist
\* is undefined
UpdateGroundMist(m) == [i \in DOMAIN m |-> UpdateMistParticle(m[i])]

----------------------------------------------------------------------------
(* AssetManager *)

Urls == 1..NumUrls

\* this.textureLoader, this.gltfLoader, this.audioLoader
Loaders == {"texture", "model", "audio"}

\* loader.load(url, ...): one more request of the loader is in flight
StartLoad(u, k) ==
    /\ loading' = [loading EXCEPT ![u][k] = @ + 1]
    /\ loadsStarted' = [loadsStarted EXCEPT ![u] = @ + 1]

\* loadTexture(url): the texture object is cached before it has loaded
LoadTexture(u) ==
    /\ IF u \in cache
       THEN UNCHANGED assetVars
       ELSE /\ loadsStarted[u] < MaxLoads
            /\ StartLoad(u, "texture")
            /\ cache' = cache \cup {u}
    /\ UNCHANGED <<loopVars, initVars>>

\* loadModel(url): the cache is written by the onLoad callback only
LoadModel(u) ==
    /\ IF u \in cache
       THEN UNCHANGED assetVars
       ELSE /\ loadsStarted[u] < MaxLoads
            /\ StartLoad(u, "model")
            /\ UNCHANGED cache
    /\ UNCHANGED <<loopVars, initVars>>

\* loadAudio(url): as loadModel
LoadAudio(u) ==
    /\ IF u \in cache
       THEN UNCHANGED assetVars
       ELSE /\ loadsStarted[u] < MaxLoads
            /\ StartLoad(u, "audio")
            /\ UNCHANGED cache
    /\ UNCHANGED <<loopVars, initVars>>

\* the onLoad callback of a request: (gltf) => { this.cache.set(url, ...) },
\* (buffer) => { this.cache.set(url, buffer) }; a texture has no callback
LoaderOnLoad(u, k) ==
    /\ loading[u][k] > 0
    /\ loading' = [loading EXCEPT ![u][k] = @ - 1]
    /\ cache' = IF k = "texture" THEN cache ELSE cache \cup {u}
    /\ UNCHANGED loadsStarted
    /\ UNCHANGED <<loopVars, initVars>>

\* the onError callback of a request: reject, or nothing for a texture
LoaderOnError(u, k) ==
    /\ loading[u][k] > 0
    /\ loading' = [loading EXCEPT ![u][k] = @ - 1]
    /\ UNCHANGED <<cache, loadsStarted>>
    /\ UNCHANGED <<loopVars, initVars>>

----------------------------------------------------------------------------
(* init() *)

\* the functions init() calls with the trees placed before the houses exist
InitStagesTreesFirst ==
    << <<"setupCamera">>, <<"setupControls">>, <<"setupLighting">>,
       <<"createGround">>, <<"createSnow">>,
       <<"createDetailedTrees", "createDetailedHouses", "createDecorations">>,
       <<"createElves", "createSanta", "createReindeers">>,
       <<"createNorthernLights", "createFences">>,
       << >>,
       <<"setupAudio">> >>

\* the functions init() calls, grouped by the await that waits for them
InitStages ==
    << <<"setupCamera">>, <<"setupControls">>, <<"setupLighting">>,
       <<"createGround">>, <<"createSnow">>,
       <<"createDetailedHouses", "createDetailedTrees", "createDecorations">>,
       <<"createElves", "createSanta", "createReindeers">>,
       <<"createNorthernLights", "createFences">>,
       << >>,
       <<"setupAudio">> >>

\* the functions of the stages from the i-th on, in the order of their calls
RECURSIVE StagesFrom(_)
StagesFrom(i) ==
    IF i > Len(InitStages) THEN << >> ELSE InitStages[i] \o StagesFrom(i + 1)

AllStages == StagesFrom(1)

\* initPc after the catch block of init() has run
InitFailed == 0

\* initPc after the last stage: setTimeout(..., 500) has been called
InitDone == Len(InitStages) + 1

\* setupAudio() catches its own errors; any other stage function may throw
MayThrow(f) == f # "setupAudio"

\* a follower that has not been created
NoFollower == [x |-> 0, z |-> 0, pathIndex |-> 0, moveSpeed |-> 0, path |-> << >>]

\* the camera made by initScene(), at the origin
NewCamera ==
    [position |-> [x |-> 0, y |-> 0, z |-> 0], matrixWorld |-> [x |-> 0, y |-> 0, z |-> 0],
     matrixWorldNeedsUpdate |-> FALSE]

\* the catch block of init() with a second chance: the timer is set all the same
CatchInitErrorAndStart ==
    /\ initPc' = InitDone
    /\ loadingHidden' = TRUE
    /\ alerts' = alerts + 1

\* the catch block of init(): console.error, hideLoadingScreen(), alert(...)
CatchInitError ==
    /\ initPc' = InitFailed
    /\ loadingHidden' = TRUE
    /\ alerts' = alerts + 1

\* what the functions fs, called in this order, do to the scene
StageEffects(fs) ==
    LET called(f) == \E k \in DOMAIN fs : fs[k] = f
    IN  /\ camera' = IF called("setupCamera")
                     THEN [position |-> CameraStart, matrixWorld |-> CameraStart,
                           matrixWorldNeedsUpdate |-> TRUE]
                     ELSE camera
        /\ controls' = IF called("setupControls") THEN camera.position ELSE controls
        /\ IF called("createGround")
           THEN /\ groundTexture' = "pending"
                /\ drifts' \in [1..NumInitialDrifts ->
                       { NewDrift(d.x, d.z, d.height, d.growthRate) : d \in InitialDriftDraws }]
           ELSE UNCHANGED <<groundTexture, drifts>>
        /\ IF called("createSnow")
           THEN snow' \in [1..NumSnow -> SnowStartDraws]
           ELSE UNCHANGED snow
        /\ lods' = IF called("createDetailedTrees")
                   THEN [i \in DOMAIN LODObjects |-> AllLevelsVisible(LODObjects[i].thresholds)]
                   ELSE IF called("createDetailedHouses")
                        THEN [i \in 1..NumHouses |-> AllLevelsVisible(LODObjects[i].thresholds)]
                        ELSE lods
        /\ IF called("createElves")
           THEN \E d \in [1..NumElves -> ElfDraws] :
                   /\ elves' = [i \in 1..NumElves |-> CreateElf(i - 1, d[i])]
                   /\ advances' = [elves |-> [i \in 1..NumElves |-> 0], santa |-> 0]
           ELSE UNCHANGED <<elves, advances>>
        /\ IF called("createSanta")
           THEN \E d \in SantaDraws : santa' = CreateSanta(d)
           ELSE UNCHANGED santa

\* init() from one await to the next: the functions of the stage are called
\* in order; if one throws, the catch block hides the loading screen and
\* alerts, else init() goes on, and after the last stage sets the timer
InitStage ==
    /\ initPc \in DOMAIN InitStages
    /\ \/ /\ stagesRun' = stagesRun \o InitStages[initPc]
          /\ initPc' = initPc + 1
          /\ StageEffects(InitStages[initPc])
          /\ UNCHANGED <<loadingHidden, alerts>>
       \/ \E k \in DOMAIN InitStages[initPc] :
             /\ MayThrow(InitStages[initPc][k])
             /\ stagesRun' = stagesRun \o SubSeq(InitStages[initPc], 1, k - 1)
             /\ StageEffects(SubSeq(InitStages[initPc], 1, k - 1))
             /\ CatchInitError
    /\ UNCHANGED <<schedulerVars, frame, impacted, impactCount, renderCount,
                   lastRenderFrame, lastFrameSkip, groundMist, assetVars>>

\* the load of the ground texture ends: TextureLoader calls onLoad or onError
GroundTextureSettles ==
    /\ groundTexture = "pending"
    /\ groundTexture' \in {"loaded", "failed"}
    /\ UNCHANGED <<loopVars, initPc, stagesRun, loadingHidden, alerts, assetVars>>

----------------------------------------------------------------------------
(* The frame scheduler *)

\* the throttle with targetFPS = 30
FrameDueAt30(t) == lastFrameTime = 0 \/ (t - lastFrameTime) * (TargetFPS \div 2) >= 1000

\* currentTime - this.lastFrameTime >= 1000 / targetFPS
FrameDue(t) == lastFrameTime = 0 \/ (t - lastFrameTime) * TargetFPS >= 1000

\* frameSkip = time % 2 < deltaTime, in ms
FrameSkip(time, deltaTime) == time % 2000 < deltaTime

\* renderer.render is called inside the block the throttle guards, not after it
RendersOfUnthrottled(due) == 1

\* the renderer.render calls of one animate(): one when the frame is due
RendersOf(due) == IF due THEN 1 ELSE 0

\* requestAnimationFrame called at the start of animate() and at its end
RequestAnimationFrameTwice(pending, id) == pending \cup {id, -id}

\* requestAnimationFrame(() => this.animate()) returning id
RequestAnimationFrame(pending, id) == pending \cup {id}

\* cancelAnimationFrame(this.animationFrameId), skipped while the id is undefined
CancelAnimationFrame(pending, id) == IF id # 0 THEN pending \ {id} ELSE pending

\* the last calls of the throttled block with the render moved up
TickTailRenderFirst ==
    <<"renderer.render", "controls.update", "animateCharacters", "scene.updateMatrixWorld">>

\* the last calls of the throttled block: "Always update important
\* animations", "Update scene before rendering", "Render Scene"
TickTail ==
    <<"controls.update", "animateCharacters", "scene.updateMatrixWorld", "renderer.render">>

\* the calls of the throttled block of animate() in their order
TickCalls(lodBatch, frameSkip) ==
    <<"update", "animateSnow">>
    \o (IF lodBatch THEN <<"LOD.update batch", "camera.updateMatrixWorld">> ELSE << >>)
    \o (IF frameSkip THEN <<"Promise.resolve().then">> ELSE << >>)
    \o TickTail

\* animate() at time t, called by the animation-frame request fired (0 when
\* the timer of init() calls it)
AnimateAt(t, fired) ==
    LET d  == ClockGetDelta(clock, t)
        e  == ClockGetElapsedTime(d.clock, t)
        deltaTime == d.value
        time == e.value
        batch == BatchLODUpdate(camera, lods)
        moved == ControlsUpdate(batch.camera, controls)
    IN  /\ frame < MaxFrames
        /\ now' = t
        /\ frame' = frame + 1
        /\ clock' = e.clock
        /\ animationFrameId' = frame + 1
        /\ rafPending' = RequestAnimationFrame(
                             CancelAnimationFrame(rafPending \ {fired}, animationFrameId),
                             frame + 1)
        /\ impacted' = {}
        /\ renderCount' = renderCount + RendersOf(FrameDue(t))
        /\ UNCHANGED <<drifts, impactCount, controls, groundMist, assetVars>>
        /\ UNCHANGED <<initPc, stagesRun, groundTexture, alerts>>
        /\ IF FrameDue(t)
           THEN /\ lastFrameTime' = t
                /\ \E draws \in [Fallen(snow) -> SnowDraws] :
                      snow' = AnimateSnow(snow, time, draws)
                /\ lastFrameSkip' = FrameSkip(time, deltaTime)
                /\ microtasks' = IF FrameSkip(time, deltaTime)
                                 THEN Append(microtasks,
                                             [deltaTime |-> deltaTime, frame |-> frame + 1])
                                 ELSE microtasks
                /\ AnimateCharacters
                /\ camera' = RenderCamera(moved)
                /\ lods' = RenderLODs(moved, batch.lods)
                /\ lastRenderFrame' = frame + 1
                /\ tickCalls' = TickCalls(LODBatchDue(camera), FrameSkip(time, deltaTime))
           ELSE /\ tickCalls' = << >>
                /\ UNCHANGED <<lastFrameTime, snow, microtasks, followerVars, camera,
                               lods, lastRenderFrame, lastFrameSkip>>

\* the timer callback of init(): hideLoadingScreen(); animate()
StartAnimation ==
    /\ initPc = InitDone
    /\ ~started
    /\ started' = TRUE
    /\ loadingHidden' = TRUE
    /\ AnimateAt(now + StartDelay, 0)

\* an animation-frame callback: () => this.animate()
AnimationFrame ==
    /\ started
    /\ microtasks = <<>>
    /\ \E id \in rafPending, dt \in FrameIntervals :
          /\ AnimateAt(now + dt, id)
          /\ UNCHANGED <<started, loadingHidden>>

\* the microtask queued by animate(): updateParticleSystems(deltaTime * 2),
\* updateSnow(), updateAudio() (which moves no modelled state)
RunMicrotask ==
    /\ microtasks # <<>>
    /\ microtasks' = Tail(microtasks)
    /\ groundMist' = UpdateGroundMist(groundMist)
    /\ \E grow \in SUBSET DOMAIN drifts,
          coins \in [Landed(snow) -> BOOLEAN],
          spawns \in [Landed(snow) -> SpawnDraws],
          respawns \in [Landed(snow) -> RespawnDraws] :
          LET r == UpdateSnow(snow, drifts, grow, coins, spawns, respawns)
          IN  /\ snow' = r.snow
              /\ drifts' = r.drifts
              /\ impacted' = {r.hits[k] : k \in DOMAIN r.hits}
              /\ impactCount' = impactCount + Len(r.hits)
    /\ UNCHANGED <<now, clock, lastFrameTime, animationFrameId, rafPending, started, frame>>
    /\ UNCHANGED <<followerVars, renderVars, lastFrameSkip, tickCalls, initVars, assetVars>>

\* createSnow(): the particles of the snow system
InitSnow ==
    snow \in [1..NumSnow -> SnowStartDraws]

\* createInitialSnowDrifts()
InitDrifts ==
    drifts \in [1..NumInitialDrifts ->
                  { NewDrift(d.x, d.z, d.height, d.growthRate) : d \in InitialDriftDraws }]

\* createElves() and createSanta()
InitFollowers ==
    /\ \E d \in [1..NumElves -> ElfDraws] :
          elves = [i \in 1..NumElves |-> CreateElf(i - 1, d[i])]
    /\ \E d \in SantaDraws : santa = CreateSanta(d)
    /\ advances = [elves |-> [i \in 1..NumElves |-> 0], santa |-> 0]

\* the scheduler before the timer callback of init() runs
InitScheduler ==
    /\ now = 0
    /\ clock = [running |-> FALSE, oldTime |-> 0, elapsedTime |-> 0]
    /\ lastFrameTime = 0
    /\ animationFrameId = 0
    /\ rafPending = {}
    /\ started = FALSE
    /\ microtasks = <<>>
    /\ frame = 0
    /\ lastFrameSkip = FALSE
    /\ tickCalls = << >>

\* setupCamera(), setupControls(), createDetailedHouses() and
\* createDetailedTrees(); nothing is rendered yet
InitRender ==
    /\ camera = [position |-> CameraStart, matrixWorld |-> CameraStart,
                 matrixWorldNeedsUpdate |-> TRUE]
    /\ controls = CameraStart
    /\ lods = [i \in DOMAIN LODObjects |-> AllLevelsVisible(LODObjects[i].thresholds)]
    /\ renderCount = 0
    /\ lastRenderFrame = 0

\* init() has run every stage and set the timer; the texture of the ground
\* is still loading
InitCompleted ==
    /\ initPc = InitDone
    /\ stagesRun = AllStages
    /\ groundTexture = "pending"
    /\ loadingHidden = FALSE
    /\ alerts = 0

\* the AssetManager right after its constructor
InitAssets ==
    /\ cache = {}
    /\ loading = [u \in Urls |-> [k \in Loaders |-> 0]]
    /\ loadsStarted = [u \in Urls |-> 0]

Init ==
    /\ InitScheduler
    /\ InitSnow
    /\ InitDrifts
    /\ impacted = {}
    /\ impactCount = 0
    /\ InitFollowers
    /\ InitRender
    /\ groundMist = <<>>
    /\ InitCompleted
    /\ InitAssets

Next ==
    \/ StartAnimation
    \/ AnimationFrame
    \/ RunMicrotask

Spec == Init /\ [][Next]_vars

----------------------------------------------------------------------------
(* The path followers alone: animateCharacters() tick after tick, as every  *)
(* executed frame calls it                                                  *)

\* one more call of animateCharacters()
CharactersTick ==
    /\ frame < MaxPathTicks
    /\ frame' = frame + 1
    /\ AnimateCharacters
    /\ UNCHANGED <<now, clock, lastFrameTime, animationFrameId, rafPending, started,
                   microtasks, snowVars>>
    /\ UNCHANGED <<renderVars, lastFrameSkip, tickCalls, groundMist, initVars, assetVars>>

InitPath ==
    /\ InitScheduler
    /\ snow = <<>>
    /\ drifts = <<>>
    /\ impacted = {}
    /\ impactCount = 0
    /\ InitFollowers
    /\ InitRender
    /\ groundMist = <<>>
    /\ InitCompleted
    /\ InitAssets

NextPath == CharactersTick

SpecPath == InitPath /\ [][NextPath]_vars

----------------------------------------------------------------------------
(* The camera and the LOD objects: the animation loop with pointer input,   *)
(* without snow                                                             *)

NextLOD ==
    \/ PointerInput
    \/ StartAnimation
    \/ AnimationFrame
    \/ RunMicrotask

SpecLOD == InitPath /\ [][NextLOD]_vars

----------------------------------------------------------------------------
(* The ground mist alone: createGroundMist() has run and                    *)
(* updateParticleSystems updates the mist tick after tick                   *)

\* one more call of updateParticleSystems
MistTick ==
    /\ frame < MaxMistTicks
    /\ frame' = frame + 1
    /\ groundMist' = UpdateGroundMist(groundMist)
    /\ UNCHANGED <<schedulerVars, snowVars, followerVars, renderVars, lastFrameSkip,
                   initVars, assetVars>>

InitMist ==
    /\ InitScheduler
    /\ snow = <<>>
    /\ drifts = <<>>
    /\ impacted = {}
    /\ impactCount = 0
    /\ InitFollowers
    /\ InitRender
    /\ groundMist \in [1..NumMist -> MistDraws]
    /\ InitCompleted
    /\ InitAssets

NextMist == MistTick

SpecMist == InitMist /\ [][NextMist]_vars

----------------------------------------------------------------------------
(* init(): from the call in initScene() to the first animate()              *)

\* initScene() has made the scene, the camera and the clock and calls init()
InitBoot ==
    /\ InitScheduler
    /\ snow = <<>>
    /\ drifts = <<>>
    /\ impacted = {}
    /\ impactCount = 0
    /\ elves = <<>>
    /\ santa = NoFollower
    /\ advances = [elves |-> <<>>, santa |-> 0]
    /\ camera = NewCamera
    /\ controls = NewCamera.position
    /\ lods = <<>>
    /\ renderCount = 0
    /\ lastRenderFrame = 0
    /\ groundMist = <<>>
    /\ initPc = 1
    /\ stagesRun = <<>>
    /\ groundTexture = "none"
    /\ loadingHidden = FALSE
    /\ alerts = 0
    /\ InitAssets

NextInit ==
    \/ InitStage
    \/ GroundTextureSettles
    \/ StartAnimation

SpecInit == InitBoot /\ [][NextInit]_vars

----------------------------------------------------------------------------
(* The AssetManager alone: loads asked for and answered in any order        *)

NextAssets ==
    \E u \in Urls :
        \/ LoadTexture(u)
        \/ LoadModel(u)
        \/ LoadAudio(u)
        \/ \E k \in Loaders : LoaderOnLoad(u, k)
        \/ \E k \in Loaders : LoaderOnError(u, k)

SpecAssets == InitPath /\ [][NextAssets]_vars

----------------------------------------------------------------------------
(* addToSnowCover alone, applied to any collection of drifts: also to drifts *)
(* whose scale.y is below their maxHeight                                    *)

\* the drifts addToSnowCover is applied to: as createInitialSnowDrifts makes
\* them, with scale.y at 1 as a new Mesh has it or below their maxHeight
CoverDriftDraws ==
    UNION { { [NewDrift(d.x, d.z, d.height, d.growthRate) EXCEPT !.sy = sy] :
                sy \in { ScaleOne, 2 * d.height - 2 * d.growthRate - 1, 2 * d.height - 1 } } :
            d \in InitialDriftDraws }

\* the (x, z) of the landings, in tenths: near both initial drifts, near the
\* first one only, at the edge of the radius, and far from both
ImpactDraws == { <<7, 7>>, <<-15, 0>>, <<0, 20>>, <<300, -12>> }

\* one addToSnowCover(x, z) call
CoverImpact ==
    /\ impactCount < MaxImpacts
    /\ \E h \in ImpactDraws, coin \in BOOLEAN, d \in SpawnDraws :
          /\ drifts' = AddToSnowCover(drifts, h[1], h[2], coin, d)
          /\ impacted' = {h}
    /\ impactCount' = impactCount + 1
    /\ UNCHANGED <<schedulerVars, frame, snow, followerVars, renderVars, lastFrameSkip,
                   groundMist, initVars, assetVars>>

InitCover ==
    /\ InitScheduler
    /\ snow = <<>>
    /\ drifts \in [1..NumInitialDrifts -> CoverDriftDraws]
    /\ impacted = {}
    /\ impactCount = 0
    /\ InitFollowers
    /\ InitRender
    /\ groundMist = <<>>
    /\ InitCompleted
    /\ InitAssets

NextCover == CoverImpact

SpecCover == InitCover /\ [][NextCover]_vars

----------------------------------------------------------------------------
(* The claims *)

\* every follower: the elves, then Santa
Followers == [i \in 1..(Len(elves) + 1) |-> IF i <= Len(elves) THEN elves[i] ELSE santa]

\* the followers after the step
FollowersNext == [i \in 1..(Len(elves') + 1) |-> IF i <= Len(elves') THEN elves'[i] ELSE santa']

\* the advances counted for every follower
FollowerAdvances ==
    [i \in 1..(Len(elves) + 1) |-> IF i <= Len(elves) THEN advances.elves[i] ELSE advances.santa]

\* C1: after every tick of the update loop (animateSnow, and updateSnow when
\* it runs) every snow particle has 0 <= y <= 80.
C1_SnowHeightInRange ==
    \A i \in DOMAIN snow : snow[i].y >= 0 /\ snow[i].y <= SnowTop

\* C1 witness: frames have run and animateSnow has put a fallen particle
\* back at the top.
C1_Witness ==
    frame >= 2 /\ \E i \in DOMAIN snow : snow[i].y = SnowTop

\* C2: a particle is put back at the top from the ground only in a step that
\* hands its landing to addToSnowCover: every step that raises a particle's y
\* records an impact.
C2_ResetOnlyWithImpact ==
    [][\A i \in DOMAIN snow : snow'[i].y > snow[i].y => impacted' # {}]_vars

\* C3: when the frame loop has run until the simulated time reaches 10 s, at
\* least one addToSnowCover call has occurred.
C3_ImpactWithinTenSeconds ==
    clock.elapsedTime >= TenSeconds => impactCount >= 1

\* C4: in every reachable state every drift has scale.y <= its maxHeight.
C4_ScaleWithinMaxHeight ==
    \A i \in DOMAIN drifts : drifts[i].sy <= drifts[i].maxHeight

\* C5: for every drift, scale.y never decreases across addToSnowCover impacts
\* and the background ticks of updateSnow.
C5_ScaleNeverDecreases ==
    [][\A i \in DOMAIN drifts :
          i \in DOMAIN drifts' => drifts'[i].sy >= drifts[i].sy]_vars

\* C5 witness: updateSnow has run and handed addToSnowCover a landing within
\* the radius of an initial drift.
C5_Witness ==
    /\ Len(drifts) = NumInitialDrifts
    /\ \E h \in impacted : NearestDrift(drifts, h[1], h[2]) # 0

\* C6: no operation removes a drift: after every step every drift is still in
\* the collection, at its place, and the collection is no shorter.
C6_DriftsNeverRemoved ==
    [][/\ Len(drifts') >= Len(drifts)
       /\ \A i \in DOMAIN drifts :
             /\ i \in DOMAIN drifts'
             /\ drifts'[i].x = drifts[i].x
             /\ drifts'[i].z = drifts[i].z]_vars

\* C6 witness: addToSnowCover has added a drift to the initial ones.
C6_Witness == Len(drifts) > NumInitialDrifts

\* C7: for every follower with a path of length L, pathIndex is in [0, L).
C7_PathIndexInRange ==
    \A i \in DOMAIN Followers :
        Followers[i].pathIndex >= 0 /\ Followers[i].pathIndex < Len(Followers[i].path)

\* C7 witness: a follower has walked to the last index of its path.
C7_Witness ==
    \E i \in DOMAIN Followers :
        Followers[i].pathIndex = Len(Followers[i].path) - 1

\* the follower at (x, z) is within 0.1 of the point
WithinArrivalDistance(x, z, point) ==
    LET ex == x - point.x * PosPerMilli
        ez == z - point.z * PosPerMilli
    IN  /\ ex > -ArrivalDistance /\ ex < ArrivalDistance
        /\ ez > -ArrivalDistance /\ ez < ArrivalDistance
        /\ ex * ex + ez * ez < ArrivalDistance * ArrivalDistance

\* C8: every change of a follower's pathIndex is from i to (i + 1) mod L, on
\* a tick that leaves the follower within 0.1 of the upcoming waypoint; so a
\* follower that started at 0 is at 0 again after exactly L advances.
C8_AdvanceByOneOnArrival ==
    /\ [](\A i \in DOMAIN Followers :
            Followers[i].pathIndex = FollowerAdvances[i] % Len(Followers[i].path))
    /\ [][\A i \in DOMAIN Followers :
            FollowersNext[i].pathIndex # Followers[i].pathIndex =>
              /\ FollowersNext[i].pathIndex =
                    (Followers[i].pathIndex + 1) % Len(Followers[i].path)
              /\ WithinArrivalDistance(FollowersNext[i].x, FollowersNext[i].z,
                                        NextPoint(Followers[i]))]_vars

\* C8 witness: a follower has advanced exactly L times and is at index 0.
C8_Witness ==
    \E i \in DOMAIN Followers :
        /\ FollowerAdvances[i] = Len(Followers[i].path)
        /\ Followers[i].pathIndex = 0

\* the step of follower f, times its offset from the upcoming waypoint (in
\* thousandths): positive when the step leads away from the waypoint
StepAwayFromWaypoint(f) ==
    LET cur  == f.path[f.pathIndex + 1]
        nxt  == NextPoint(f)
        step == StepVector(nxt.x - cur.x, nxt.z - cur.z, f.moveSpeed)
    IN  step.x * (f.x \div PosPerMilli - nxt.x) + step.z * (f.z \div PosPerMilli - nxt.z)

\* C9: every follower with moveSpeed > 0 converges toward its upcoming
\* waypoint and eventually arrives. A follower moves on a straight line
\* until it arrives, so it can only arrive while its step does not lead away
\* from the waypoint: in no reachable state does a follower step away from
\* its upcoming waypoint.
C9_ConvergesToWaypoint ==
    \A i \in DOMAIN Followers :
        Followers[i].moveSpeed > 0 => StepAwayFromWaypoint(Followers[i]) <= 0

\* C10: a tick that runs with deltaTime = 0 leaves every particle position
\* unchanged.
C10_ZeroDeltaKeepsPositions ==
    [][(frame' = frame + 1 /\ (~clock.running \/ now' = clock.oldTime)) =>
          \A i \in DOMAIN snow :
              /\ snow'[i].x = snow[i].x
              /\ snow'[i].y = snow[i].y
              /\ snow'[i].z = snow[i].z]_vars

\* the level the distance selects among the thresholds ts: the one with the
\* greatest threshold <= distance
SelectedLevel(distSq, ts) ==
    CHOOSE k \in DOMAIN ts :
        /\ ts[k] * ts[k] <= distSq
        /\ \A j \in DOMAIN ts : ts[j] * ts[j] <= distSq => ts[j] <= ts[k]

\* the square of the camera's current distance to LOD object i
CameraDistanceSq(i) == DistanceSq(camera.position, LODObjects[i])

\* C11: at every render submission each LOD entity has exactly one visible
\* level, the one whose threshold is the greatest value <= the camera's
\* current distance to the entity (0/50/100 for houses, 0/60/120 for trees).
C11_OneLevelByDistance ==
    [][renderCount' > renderCount =>
         \A i \in DOMAIN lods' :
            lods'[i] = { SelectedLevel(CameraDistanceSq(i)', LODObjects[i].thresholds) }]_vars

\* C11 witness: frames have been rendered after the camera was moved, and a
\* house shows its medium level while another LOD object shows its lowest.
C11_Witness ==
    /\ renderCount >= 2
    /\ ~camera.matrixWorldNeedsUpdate
    /\ camera.position # CameraStart
    /\ \E i \in 1..NumHouses : lods[i] = {2}
    /\ \E i \in DOMAIN lods : lods[i] = {3}

\* C12 as stated: for the house with thresholds [0, 50, 100], at camera
\* distance 75 the medium level is selected, at distance 149 still the medium
\* level, and at distance 150 the lowest-detail level.
C12_LevelsAt75_149_150 ==
    [][renderCount' > renderCount =>
         /\ CameraDistanceSq(1)' = 75 * 75 => lods'[1] = {2}
         /\ CameraDistanceSq(1)' = 149 * 149 => lods'[1] = {2}
         /\ CameraDistanceSq(1)' = 150 * 150 => lods'[1] = {3}]_vars

\* C12 amended: at camera distance 75 the medium level is selected, at
\* distance 99 still the medium level, and from distance 100 on (so at 149
\* and at 150) the lowest-detail level.
C12_LevelsAt75_99_100 ==
    [][renderCount' > renderCount =>
         /\ CameraDistanceSq(1)' = 75 * 75 => lods'[1] = {2}
         /\ CameraDistanceSq(1)' = 99 * 99 => lods'[1] = {2}
         /\ CameraDistanceSq(1)' = 100 * 100 => lods'[1] = {3}
         /\ CameraDistanceSq(1)' = 149 * 149 => lods'[1] = {3}
         /\ CameraDistanceSq(1)' = 150 * 150 => lods'[1] = {3}]_vars

\* C12 witness: a frame was rendered with the camera at distance 149 from the
\* first house, which shows its lowest-detail level.
C12_Witness ==
    /\ renderCount >= 1
    /\ ~camera.matrixWorldNeedsUpdate
    /\ CameraDistanceSq(1) = 149 * 149
    /\ lods[1] = {3}

\* the square of the XZ distance of mist particle p from the origin
MistRadiusSq(p) == p.x * p.x + p.z * p.z

\* |a|
Abs(a) == IF a < 0 THEN -a ELSE a

\* C13 as stated: after a mist update, a particle whose XZ distance exceeded
\* 40 after integration lies exactly on the radius-40 circle at the same
\* angle, and every mist particle has XZ distance <= 40.
C13_MistExactlyOnCircle ==
    [][frame' = frame + 1 =>
         \A i \in DOMAIN groundMist :
            LET q == IntegrateMist(groundMist[i])
                p == groundMist'[i]
            IN  /\ MistRadiusSq(q) > MistRadius * MistRadius =>
                      /\ MistRadiusSq(p) = MistRadius * MistRadius
                      /\ p.x * q.z - p.z * q.x = 0
                      /\ p.x * q.x + p.z * q.z > 0
                /\ MistRadiusSq(p) <= MistRadius * MistRadius]_vars

\* C13 amended: after a mist update, a particle whose XZ distance exceeded 40
\* after integration lies on the radius-40 circle at the same angle up to the
\* rounding of the stored coordinates (less than two steps of the grid each),
\* and every mist particle has XZ distance <= 40 up to that rounding.
C13_MistOnCircleUpToRounding ==
    [][frame' = frame + 1 =>
         \A i \in DOMAIN groundMist :
            LET q == IntegrateMist(groundMist[i])
                p == groundMist'[i]
            IN  /\ MistRadiusSq(q) > MistRadius * MistRadius =>
                      /\ MistRadiusSq(p) >= (MistRadius - 2) * (MistRadius - 2)
                      /\ Abs(p.x * q.z - p.z * q.x) <= 2 * (Abs(q.x) + Abs(q.z))
                      /\ p.x * q.x + p.z * q.z > 0
                /\ MistRadiusSq(p) <= (MistRadius + 2) * (MistRadius + 2)]_vars

\* C13 witness: a particle that started inside the circle has been put back
\* onto it.
C13_Witness ==
    /\ frame >= 2
    /\ \E i \in DOMAIN groundMist :
          MistRadiusSq(groundMist[i]) >= (MistRadius - 2) * (MistRadius - 2)

\* C14: a tick runs the update and render body iff it is the first tick or at
\* least 1000/60 ms have passed since the last executed tick; any other tick
\* updates and renders nothing; every tick schedules the next invocation.
C14_ThrottleAndRearm ==
    [][frame' = frame + 1 =>
         /\ (frame = 0 \/ 60 * (now' - lastFrameTime) >= 1000)
               <=> (lastFrameTime' = now' /\ lastRenderFrame' = frame')
         /\ ~(frame = 0 \/ 60 * (now' - lastFrameTime) >= 1000)
               => UNCHANGED <<lastFrameTime, snow, drifts, elves, santa, camera, lods,
                              microtasks, renderCount, lastRenderFrame>>
         /\ animationFrameId' \in rafPending'
         /\ animationFrameId' \notin rafPending]_vars

\* C14 witness: ticks have been executed and at least one tick was throttled.
C14_Witness ==
    renderCount >= 2 /\ frame > renderCount /\ rafPending # {}

\* C15: among executed ticks the conditional updates are triggered on
\* alternating ticks: of two consecutive executed ticks exactly one queues
\* updateParticleSystems, updateSnow and updateAudio.
C15_AlternatingTicks ==
    [][(frame' = frame + 1 /\ lastFrameTime' = now' /\ renderCount >= 1) =>
          lastFrameSkip' # lastFrameSkip]_vars

\* C16: each executed tick issues exactly one renderer.render call, a
\* throttled tick issues none, and nothing else renders.
C16_OneRenderPerExecutedTick ==
    [][renderCount' = renderCount +
          (IF frame' = frame + 1 /\ lastFrameTime' = now' THEN 1 ELSE 0)]_vars

\* C16 witness: the last tick was throttled and rendered nothing after
\* executed ticks had rendered.
C16_Witness ==
    renderCount >= 1 /\ lastRenderFrame < frame

\* C17: on a tick where the conditional updates are due they have run before
\* that tick's render call: no update queued by a tick is still waiting once
\* that tick has rendered.
C17_UpdatesBeforeRender ==
    \A i \in DOMAIN microtasks : microtasks[i].frame > lastRenderFrame

\* C18: animate() is first invoked only after every initialization stage has
\* completed and every asset load started during initialization, the ground
\* texture load included, has resolved or rejected.
C18_AnimateAfterLoads ==
    started =>
        /\ stagesRun = AllStages
        /\ groundTexture \in {"loaded", "failed"}

\* C19: if an initialization stage throws, init runs none of the remaining
\* stages, hides the loading screen, raises exactly one alert, and the
\* animation loop is never started; nothing is retried.
C19_FailedInitStops ==
    /\ []((alerts >= 1 \/ (initPc \notin DOMAIN InitStages /\ stagesRun # AllStages)) =>
            /\ initPc = InitFailed
            /\ alerts = 1
            /\ loadingHidden
            /\ ~started
            /\ rafPending = {})
    /\ [][initPc = InitFailed =>
            UNCHANGED <<initPc, stagesRun, alerts, started, frame>>]_vars

\* C19 witness: createDetailedTrees threw after createDetailedHouses had
\* returned, while the ground texture was loading.
C19_Witness ==
    /\ initPc = InitFailed
    /\ Len(stagesRun) >= 1
    /\ stagesRun[Len(stagesRun)] = "createDetailedHouses"
    /\ groundTexture = "pending"

\* C20: for any url the asset cache starts at most one underlying load,
\* whatever the sequence of loadTexture, loadModel and loadAudio calls, also
\* while an earlier load of the url is pending.
C20_OneLoadPerUrl ==
    \A u \in Urls : loadsStarted[u] <= 1

\* C21: the functions of init() are called, and return, in the order camera,
\* controls, lighting, ground, snow, houses, trees, decorations, elves, Santa,
\* reindeers, northern lights, fences, audio: what has run so far is always a
\* beginning of that order, so a function starts only after the one before
\* it has returned, and the houses exist whenever the trees do.
C21_StagesInFixedOrder ==
    LET order == <<"setupCamera", "setupControls", "setupLighting", "createGround",
                   "createSnow", "createDetailedHouses", "createDetailedTrees",
                   "createDecorations", "createElves", "createSanta", "createReindeers",
                   "createNorthernLights", "createFences", "setupAudio">>
        ran(f) == \E k \in DOMAIN stagesRun : stagesRun[k] = f
    IN  /\ Len(stagesRun) <= Len(order)
        /\ \A k \in DOMAIN stagesRun : stagesRun[k] = order[k]
        /\ ran("createDetailedTrees") => ran("createDetailedHouses") /\ Len(lods) > NumHouses
        /\ Len(lods) > NumHouses => ran("createDetailedTrees")
        /\ Len(lods) > 0 => ran("createDetailedHouses")

\* C21 witness: init() ran to its end, and the trees were placed among the
\* houses.
C21_Witness ==
    /\ initPc = InitDone
    /\ Len(stagesRun) = 14
    /\ stagesRun[7] = "createDetailedTrees"
    /\ Len(lods) = NumHouses + NumTrees

\* C22: in every executed tick controls.update is called before
\* animateCharacters, animateCharacters before the final
\* scene.updateMatrixWorld, and that before renderer.render, each of them once
\* and the render last.
C22_InputThenPathsThenRender ==
    LET at(f) == { k \in DOMAIN tickCalls : tickCalls[k] = f }
        once(f) == Cardinality(at(f)) = 1
        before(f, g) == \A i \in at(f), j \in at(g) : i < j
    IN  tickCalls # << >> =>
            /\ once("controls.update") /\ once("animateCharacters")
            /\ once("scene.updateMatrixWorld") /\ once("renderer.render")
            /\ before("controls.update", "animateCharacters")
            /\ before("animateCharacters", "scene.updateMatrixWorld")
            /\ before("scene.updateMatrixWorld", "renderer.render")
            /\ tickCalls[Len(tickCalls)] = "renderer.render"

\* C22 witness: an executed tick, not the first one, that also queued the
\* conditional updates.
C22_Witness ==
    /\ frame >= 2
    /\ lastRenderFrame = frame
    /\ \E k \in DOMAIN tickCalls : tickCalls[k] = "Promise.resolve().then"
    /\ \E k \in DOMAIN tickCalls : tickCalls[k] = "renderer.render"

DriftsInRadius(h) == { i \in DOMAIN drifts : DriftDistSq(drifts[i], h[1], h[2]) < 20 * 20 }

\* those of them no other one is nearer than
NearestInRadius(h) ==
    { n \in DriftsInRadius(h) :
        \A i \in DriftsInRadius(h) :
            DriftDistSq(drifts[n], h[1], h[2]) <= DriftDistSq(drifts[i], h[1], h[2]) }

C27_ImpactsOnlyAtZero ==
    /\ [](\A i \in DOMAIN snow : snow[i].y >= 0)
    /\ [][impactCount' # impactCount =>
            /\ impactCount' - impactCount = Cardinality({ i \in DOMAIN snow : snow[i].y = 0 })
            /\ \A h \in impacted' :
                  \E i \in DOMAIN snow :
                     snow[i].y = 0 /\ snow[i].x = h[1] /\ snow[i].z = h[2]]_vars

\* C27 witness: a particle that fell to y = 0 in an executed tick has been
\* handed to addToSnowCover and respawned at y = 50.
C27_Witness ==
    /\ frame >= 2
    /\ impactCount >= 1
    /\ \E h \in impacted : h # <<300, -12>>
    /\ \E i \in DOMAIN snow : snow[i].y = SnowRespawnY

C29_DeltaSincePreviousInvocation ==
    [][frame' = frame + 1 =>
         /\ clock'.oldTime = now'
         /\ frame >= 1 /\ lastFrameTime' = now' =>
               /\ lastFrameSkip' = ((now' - StartDelay) % 2000 < now' - now)
               /\ lastFrameSkip' =>
                     /\ Len(microtasks') = Len(microtasks) + 1
                     /\ microtasks'[Len(microtasks')].deltaTime = now' - now]_vars

\* C29 witness: the third invocation was executed 2500 ms after the second,
\* which was throttled 10 ms after the first: its updates are queued with
\* the delta 2500, not 2510.
C29_Witness ==
    /\ frame = 3
    /\ renderCount = 2
    /\ lastRenderFrame = 3
    /\ now = StartDelay + 2510
    /\ microtasks # << >>
    /\ microtasks[Len(microtasks)].deltaTime = 2500

\* C30: every path ends with a copy of its first waypoint, so at pathIndex
\* L - 1 the current and the next waypoint coincide: a tick leaves the
\* follower where it is, and, the follower being within 0.1 of that waypoint,
\* takes its pathIndex to 0.
C30_ClosingWaypointWraps ==
    /\ [](\A i \in DOMAIN Followers :
            /\ Followers[i].path[Len(Followers[i].path)] = Followers[i].path[1]
            /\ Followers[i].pathIndex = Len(Followers[i].path) - 1 =>
                  NextPoint(Followers[i]) = Followers[i].path[Followers[i].pathIndex + 1])
    /\ [][frame' = frame + 1 =>
            \A i \in DOMAIN Followers :
                Followers[i].pathIndex = Len(Followers[i].path) - 1 =>
                    /\ FollowersNext[i].x = Followers[i].x
                    /\ FollowersNext[i].z = Followers[i].z
                    /\ FollowersNext[i].pathIndex = 0]_vars

\* C30 witness: a follower went round its path, stood still for the tick at
\* the closing waypoint and is at index 0, within 0.1 of the first waypoint.
C30_Witness ==
    \E i \in DOMAIN Followers :
        /\ FollowerAdvances[i] = Len(Followers[i].path)
        /\ Followers[i].pathIndex = 0
        /\ Len(Followers[i].path) = NumPoints + 1
        /\ WithinArrivalDistance(Followers[i].x, Followers[i].z, Followers[i].path[1])

====
